---- MODULE Spec2Model ----
(***************************************************************************)
(* A model of the CalorieTracker ingredient resolution engine              *)
(* (IngredientNutritionSearch, src/search.py) and of the polling loop of   *)
(* LLMAssistant.generate_response (src/assistant.py).                      *)
(*                                                                         *)
(* Strings are sequences of one-character strings, so that lower(), the    *)
(* difflib similarity ratio and Python's string ordering are computed, not *)
(* assumed.  Nutrition values are exact decimals counted in tenths         *)
(* (13.8 is 138); similarity scores are exact fractions <<num, den>>.      *)
(***************************************************************************)
EXTENDS Integers, Sequences, FiniteSets, TLC

VARIABLES
    data,          \* self.data: canonical name -> nutrition record (tenths)
    ingredients,   \* self._ingredients: list(self.data.keys()), insertion order
    embeddings,    \* self._embeddings: one vector per entry of ingredients
    encoder,       \* the embedding model's answers seen so far: text -> output
    pc,            \* "idle", "done" after a search call, "again" after
                   \* the same call was made once more
    request,       \* img_ingredients of the call: sequence of [name, weight]
    search_type,   \* search_type of the call
    ret,           \* what the call gave its caller: a return or a raise
    calls,         \* matcher invocations of the call, in order: [query, out]
    prev,          \* what the previous call with the same arguments gave
    ncalls,        \* number of search calls made so far
    a_pc,          \* generate_response: position in the method
    a_timeout,     \* generate_response: the timeout argument (seconds)
    a_start,       \* generate_response: start_time (half seconds)
    a_now,         \* the clock time.time() reads (half seconds)
    a_status,      \* prediction.status as last loaded
    a_created,     \* whether client.predictions.create was called
    a_late,        \* whether the elapsed-time test of the loop fired
    a_ret          \* what generate_response gave its caller

searchVars == <<data, ingredients, embeddings, encoder, pc, request,
                search_type, ret, calls, prev, ncalls>>
assistantVars == <<a_pc, a_timeout, a_start, a_now, a_status, a_created,
                   a_late, a_ret>>
vars == <<searchVars, assistantVars>>

----------------------------------------------------------------------------
(* Bounds of the model. *)

MaxRows == 2       \* rows of the dataset file
MaxReq == 2        \* entries of one request mapping
MaxTimeout == 2    \* the timeout argument of generate_response, seconds

----------------------------------------------------------------------------
(* Strings. *)

\* ord() of the characters the model uses.
Ord(c) == CASE c = "A" -> 65 [] c = "a" -> 97 [] c = "b" -> 98

\* str.lower(), character by character.
LowerChar(c) == IF c = "A" THEN "a" ELSE c

Lower(s) == [i \in 1..Len(s) |-> LowerChar(s[i])]

\* Python's str < str: by code point, a proper prefix is smaller.
RECURSIVE StrLess(_, _)
StrLess(x, y) ==
    IF Len(y) = 0 THEN FALSE
    ELSE IF Len(x) = 0 THEN TRUE
    ELSE IF Ord(Head(x)) # Ord(Head(y)) THEN Ord(Head(x)) < Ord(Head(y))
    ELSE StrLess(Tail(x), Tail(y))

----------------------------------------------------------------------------
(* difflib.SequenceMatcher(None, a, b) with a the candidate and b the      *)
(* query, as get_close_matches sets them (set_seq2(word), set_seq1(x)).    *)
(* No element is junk: isjunk is None and the autojunk heuristic needs 200 *)
(* elements.                                                               *)

\* a[i .. i+k) = b[j .. j+k), offsets counted from 0.
BlockEqual(a, b, i, j, k) == \A d \in 1..k : a[i + d] = b[j + d]

\* find_longest_match(alo, ahi, blo, bhi): the longest common block, of
\* those the one starting earliest in a, of those the earliest in b;
\* <<alo, blo, 0>> when there is none.
BetterBlock(t, u) ==
    \/ t[3] > u[3]
    \/ t[3] = u[3] /\ t[1] < u[1]
    \/ t[3] = u[3] /\ t[1] = u[1] /\ t[2] < u[2]

BestBlock(blocks) ==
    CHOOSE t \in blocks : \A u \in blocks \ {t} : BetterBlock(t, u)

FindLongestMatch(a, b, alo, ahi, blo, bhi) ==
    BestBlock({t \in (alo..ahi) \X (blo..bhi) \X (0..(ahi - alo)) :
                  /\ t[1] + t[3] <= ahi
                  /\ t[2] + t[3] <= bhi
                  /\ BlockEqual(a, b, t[1], t[2], t[3])})

\* The sum of the sizes of get_matching_blocks(): the longest match
\* <<i, j, k>> of the window, then the same to its left and to its right.
RECURSIVE MatchingSize(_, _, _, _, _, _)
RECURSIVE SizeAround(_, _, _, _, _, _, _, _, _)
SizeAround(a, b, alo, ahi, blo, bhi, i, j, k) ==
    IF k = 0 THEN 0
    ELSE k
         + (IF alo < i /\ blo < j
               THEN MatchingSize(a, b, alo, i, blo, j) ELSE 0)
         + (IF i + k < ahi /\ j + k < bhi
               THEN MatchingSize(a, b, i + k, ahi, j + k, bhi) ELSE 0)

BlockAround(a, b, alo, ahi, blo, bhi, m) ==
    SizeAround(a, b, alo, ahi, blo, bhi, m[1], m[2], m[3])

MatchingSize(a, b, alo, ahi, blo, bhi) ==
    BlockAround(a, b, alo, ahi, blo, bhi,
                FindLongestMatch(a, b, alo, ahi, blo, bhi))

\* _calculate_ratio(matches, length): 2.0 * matches / length, 1.0 for
\* length 0, as the fraction <<num, den>>.
CalculateRatio(matches, length) ==
    IF length > 0 THEN <<2 * matches, length>> ELSE <<1, 1>>

\* Comparison of two fractions with positive denominators.
ScoreGE(x, y) == x[1] * y[2] >= y[1] * x[2]
ScoreGT(x, y) == x[1] * y[2] > y[1] * x[2]
ScoreEQ(x, y) == x[1] * y[2] = y[1] * x[2]

\* SequenceMatcher.ratio()
Ratio(a, b) == CalculateRatio(MatchingSize(a, b, 0, Len(a), 0, Len(b)),
                              Len(a) + Len(b))

\* SequenceMatcher.quick_ratio(): every element of a that b still has
\* available counts as a match.
RECURSIVE QuickMatches(_, _)
QuickMatches(a, avail) ==
    IF Len(a) = 0 THEN 0
    ELSE (IF avail[Head(a)] > 0 THEN 1 ELSE 0)
         + QuickMatches(Tail(a),
                        [avail EXCEPT ![Head(a)] = avail[Head(a)] - 1])

\* fullbcount: how often each element occurs in b.
FullBCount(b) ==
    [c \in {"A", "a", "b"} |-> Cardinality({i \in 1..Len(b) : b[i] = c})]

QuickRatio(a, b) ==
    CalculateRatio(QuickMatches(a, FullBCount(b)), Len(a) + Len(b))

\* SequenceMatcher.real_quick_ratio()
RealQuickRatio(a, b) ==
    CalculateRatio(IF Len(a) < Len(b) THEN Len(a) ELSE Len(b),
                   Len(a) + Len(b))

\* The default threshold of _fuzzy_search and _semantic_search, 0.6, as the
\* fraction ThresholdNum / ThresholdDen.  search passes no other.
ThresholdNum == 6
ThresholdDen == 10
Threshold == <<ThresholdNum, ThresholdDen>>

\* Python's order on the (score, x) tuples get_close_matches collects.
\* (ScoreGreater: the bug of comparing the scores alone, max(key=score).)
ScoreGreater(p, q) == ScoreGT(p.score, q.score)
PairGreater(p, q) ==
    \/ ScoreGT(p.score, q.score)
    \/ ScoreEQ(p.score, q.score) /\ StrLess(q.x, p.x)

\* The result list of get_close_matches: (ratio, x) of every possibility
\* that passes the three cutoff tests, in the order of the possibilities.
Scored(word, x, cutoff) ==
    IF /\ ScoreGE(RealQuickRatio(x, word), cutoff)
       /\ ScoreGE(QuickRatio(x, word), cutoff)
       /\ ScoreGE(Ratio(x, word), cutoff)
    THEN <<[score |-> Ratio(x, word), x |-> x]>>
    ELSE <<>>

RECURSIVE CloseResult(_, _, _)
CloseResult(word, possibilities, cutoff) ==
    IF Len(possibilities) = 0 THEN <<>>
    ELSE Scored(word, Head(possibilities), cutoff)
         \o CloseResult(word, Tail(possibilities), cutoff)

\* max(iterable): the first element no later element is greater than.
RECURSIVE MaxFrom(_, _)
MaxFrom(best, rest) ==
    IF Len(rest) = 0 THEN best
    ELSE MaxFrom(IF PairGreater(Head(rest), best) THEN Head(rest) ELSE best,
                 Tail(rest))

\* heapq.nlargest(1, result): [max(result)], or [] for an empty result.
NLargest1(result) ==
    IF Len(result) = 0 THEN <<>> ELSE <<MaxFrom(Head(result), Tail(result))>>

\* [x for score, x in result]
StripScores(result) == [i \in 1..Len(result) |-> result[i].x]

\* get_close_matches(word, possibilities, n=1, cutoff)
GetCloseMatches(word, possibilities, cutoff) ==
    StripScores(NLargest1(CloseResult(word, possibilities, cutoff)))

----------------------------------------------------------------------------
(* Values a matcher gives back: None, a str, or an exception raised. *)

None == [kind |-> "None", val |-> <<>>]
SomeStr(s) == [kind |-> "str", val |-> s]
Raised == [kind |-> "raise", val |-> <<>>]

\* Python's truth value of `match`: None and the empty str are false.
Truthy(m) == m.kind = "str" /\ Len(m.val) > 0

\* _fuzzy_search(ingredient_name) on the candidate list self._ingredients.
FirstOrNone(matches) ==
    IF Len(matches) > 0 THEN SomeStr(matches[1]) ELSE None

\* (ReturnsQuery: the bug of returning the lowercased query in place of
\* the candidate it matched.)
QueryOrNone(query, matches) ==
    IF Len(matches) > 0 THEN SomeStr(query) ELSE None
ReturnsQuery(ingredient_name, candidates) ==
    QueryOrNone(Lower(ingredient_name),
                GetCloseMatches(Lower(ingredient_name), candidates, Threshold))
FuzzySearch(ingredient_name, candidates) ==
    FirstOrNone(GetCloseMatches(Lower(ingredient_name), candidates, Threshold))

----------------------------------------------------------------------------
(* The embedding model and the semantic matcher.  A vector has two integer *)
(* components.  The cosine of two vectors is kept as its signed square,    *)
(* sign(u.v) * (u.v)^2 / (|u|^2 * |v|^2), an exact fraction that orders    *)
(* cosines as the cosines themselves are ordered.                          *)

Vectors == {<<1, 0>>, <<2, 1>>, <<0, 1>>}

EncodeOK(v) == [ok |-> TRUE, vec |-> v]
EncodeFail == [ok |-> FALSE, vec |-> <<>>]
EncoderOutputs == {EncodeOK(v) : v \in Vectors} \cup {EncodeFail}

Dot(u, v) == u[1] * v[1] + u[2] * v[2]

\* util.pytorch_cos_sim(u, v) for one pair of vectors.
CosSim(u, v) ==
    <<(IF Dot(u, v) < 0 THEN -1 ELSE 1) * Dot(u, v) * Dot(u, v),
      Dot(u, u) * Dot(v, v)>>

\* The threshold on the same scale as CosSim.
ThresholdSq == <<ThresholdNum * ThresholdNum, ThresholdDen * ThresholdDen>>

\* cosine_scores.argmax(): the first index holding the maximum.
ArgMax(scores) ==
    CHOOSE i \in 1..Len(scores) :
        /\ \A j \in 1..Len(scores) : ScoreGE(scores[i], scores[j])
        /\ \A j \in 1..(i - 1) : ScoreGT(scores[i], scores[j])

\* _semantic_search(ingredient_name), given what self.encoder.encode gave
\* for the lowercased name.
CosineScores(vec, index) == [i \in 1..Len(index) |-> CosSim(vec, index[i])]

AtMaxIndex(cosine_scores, max_index, candidates) ==
    IF ScoreGE(cosine_scores[max_index], ThresholdSq)
    THEN SomeStr(candidates[max_index])
    ELSE None

BestByCosine(cosine_scores, candidates) ==
    AtMaxIndex(cosine_scores, ArgMax(cosine_scores), candidates)

SemanticSearch(encoded, candidates, index) ==
    IF ~encoded.ok THEN Raised
    ELSE BestByCosine(CosineScores(encoded.vec, index), candidates)

----------------------------------------------------------------------------
(* The nutrition table: _load_data and __init__. *)

Fields == {"calories", "fats", "proteins", "carbohydrates"}

\* A csv field: a decimal number in tenths and the unit text after it.
\* str.strip("g") removes the unit; float() reads the number.
StripG(field) == [num |-> field.num, unit |-> IF field.unit = "g" THEN ""
                                                 ELSE field.unit]
Float(field) == field.num

CsvRow(name, cal, fat, prot, carb) ==
    [name |-> name,
     calories |-> [num |-> cal, unit |-> ""],
     total_fat |-> [num |-> fat, unit |-> "g"],
     protein |-> [num |-> prot, unit |-> "g"],
     carbohydrate |-> [num |-> carb, unit |-> "g"]]

\* The rows a dataset file may hold.  "a" and "A" differ only by case.
DatasetRows ==
    { CsvRow(<<>>, 520, 2, 3, 138),
      CsvRow(<<"a">>, 520, 2, 3, 138),
      CsvRow(<<"A">>, 30, 10, 50, 25),
      CsvRow(<<"b">>, 890, 3, 11, 228) }

\* One item of the dict comprehension of _load_data.
RowKey(row) == Lower(row.name)
RowRecord(row) ==
    [f \in Fields |->
        CASE f = "calories" -> Float(row.calories)
          [] f = "fats" -> Float(StripG(row.total_fat))
          [] f = "proteins" -> Float(StripG(row.protein))
          [] f = "carbohydrates" -> Float(StripG(row.carbohydrate))]

\* A Python dict: its keys in insertion order and its values.  Setting a
\* key the dict holds replaces the value and keeps the key's place.
EmptyDict == [keys |-> <<>>, val |-> <<>>]
DictSet(d, k, v) ==
    [keys |-> IF k \in DOMAIN d.val THEN d.keys ELSE Append(d.keys, k),
     val |-> [x \in DOMAIN d.val \cup {k} |-> IF x = k THEN v ELSE d.val[x]]]

RECURSIVE LoadInto(_, _)
LoadInto(d, rows) ==
    IF Len(rows) = 0 THEN d
    ELSE LoadInto(DictSet(d, RowKey(Head(rows)), RowRecord(Head(rows))),
                  Tail(rows))

\* _load_data() on a file holding `rows`.
LoadData(rows) == LoadInto(EmptyDict, rows)

----------------------------------------------------------------------------
(* search(img_ingredients, search_type). *)

\* round(n / d, 0) for n >= 0, d > 0: to the nearest whole number, a tie to
\* the even one.
Round0(n, d) ==
    LET q == n \div d
        r == n % d
    IN  IF 2 * r < d THEN q
        ELSE IF 2 * r > d THEN q + 1
        ELSE IF q % 2 = 0 THEN q ELSE q + 1

\* round(value * (ingredient_weight / 100.0), 0), value in tenths.
ScaleValue(value, ingredient_weight) ==
    Round0(value * ingredient_weight, 1000)

\* dict.update: the keys of both, the values of `other` where it has one.
DictUpdate(d, other) ==
    [k \in DOMAIN d \cup DOMAIN other |->
        IF k \in DOMAIN other THEN other[k] ELSE d[k]]

\* result_data of a matched entry.
ResultData(match, ingredient_weight, ingredient_data) ==
    DictUpdate([match |-> match, weight |-> ingredient_weight],
               [key \in DOMAIN ingredient_data |->
                   ScaleValue(ingredient_data[key], ingredient_weight)])

\* self.data after one matched entry: the record self.data.get(match) gives
\* is read, and the scaled values go to a new dict.
\* (ScaledInPlace: the bug of writing the scaled values, whole numbers,
\* into the record itself.)
ScaledInPlace(tbl, match, result_data) ==
    [tbl EXCEPT ![match] = [f \in DOMAIN tbl[match] |-> 10 * result_data[f]]]
DataAfterMatch(tbl, match, result_data) == tbl

\* {ingredient_name: value}: a mapping with the one key.
Entry(ingredient_name, value) == [k \in {ingredient_name} |-> value]
EntryKey(entry) == CHOOSE k \in DOMAIN entry : TRUE
EntryValue(entry) == entry[EntryKey(entry)]
NoMatchValue == <<>>

\* results.append(entry)
\* (EmitFront: the bug of results.insert(0, entry).)
EmitFront(results, entry) == <<entry>> \o results
Emit(results, entry) == Append(results, entry)

\* The test `ingredient_weight > 0`.
\* (NonNegative: the bug of `ingredient_weight >= 0`.)
NonNegative(ingredient_weight) == ingredient_weight >= 0
Positive(ingredient_weight) == ingredient_weight > 0

\* The test of search_type at the head of search.
\* (AnySearchType: the bug of a missing test.)
AnySearchType(stype) == TRUE
ValidSearchType(stype) == stype \in {"fuzzy", "semantic"}

\* self.encoder.encode(text): the model's answer for a text is fixed once
\* it has given it; `oracle` holds its answers for texts not seen before.
Encode(enc, oracle, text) ==
    IF text \in DOMAIN enc THEN enc[text] ELSE oracle[text]
Remember(enc, text, out) ==
    [t \in DOMAIN enc \cup {text} |-> IF t \in DOMAIN enc THEN enc[t] ELSE out]

\* The matcher call stands in the loop with no try around it: what it
\* raises leaves the loop and search.
\* (Swallowed: the bug of catching it and going on with the next entry.)
Swallowed(acc) == acc
OnRaise(acc) == [acc EXCEPT !.exc = "EncodeError"]

\* The dispatch on search_type inside the loop; match stays None when
\* neither branch is taken.
Dispatch(ingredient_name, stype, self, encoded) ==
    IF stype = "fuzzy" THEN FuzzySearch(ingredient_name, self.ingredients)
    ELSE IF stype = "semantic"
        THEN SemanticSearch(encoded, self.ingredients, self.embeddings)
    ELSE None

\* The loop body from `if match:` on.  `acc` holds results, self.data and
\* the exception that left the loop ("" while there is none).
OnMatch(item, match, acc) ==
    IF match.kind = "raise" THEN OnRaise(acc)
    ELSE IF Truthy(match)
        THEN IF match.val \notin DOMAIN acc.data
                \* self.data.get(match) is None: None.items() raises
                THEN [acc EXCEPT !.exc = "AttributeError"]
                ELSE [acc EXCEPT
                        !.data = DataAfterMatch(
                                    acc.data, match.val,
                                    ResultData(match.val, item.weight,
                                               acc.data[match.val])),
                        !.results = Emit(
                                    acc.results,
                                    Entry(item.name,
                                          ResultData(match.val, item.weight,
                                                     acc.data[match.val])))]
    ELSE [acc EXCEPT !.results = Emit(acc.results,
                                      Entry(item.name, NoMatchValue))]

\* The matcher call of one entry, recorded: what was asked, what came back,
\* and what the model answered for the text if it was encoded.
Recorded(item, stype, match, encoded, acc) ==
    [acc EXCEPT
       !.calls = IF stype \in {"fuzzy", "semantic"}
                    THEN Append(acc.calls, [query |-> Lower(item.name),
                                            out |-> match])
                    ELSE acc.calls,
       !.encoder = IF stype = "semantic"
                      THEN Remember(acc.encoder, Lower(item.name), encoded)
                      ELSE acc.encoder]

Matched(item, stype, match, encoded, acc) ==
    OnMatch(item, match, Recorded(item, stype, match, encoded, acc))

Encoded(item, stype, self, oracle, encoded, acc) ==
    Matched(item, stype, Dispatch(item.name, stype, self, encoded), encoded,
            acc)

\* One pass of the loop body for the entry `item`.
LoopBody(item, stype, self, oracle, acc) ==
    IF ~Positive(item.weight) THEN acc
    ELSE Encoded(item, stype, self, oracle,
                 IF stype = "semantic"
                    THEN Encode(acc.encoder, oracle, Lower(item.name))
                    ELSE EncodeFail,
                 acc)

\* for ingredient_name, ingredient_weight in img_ingredients.items(): an
\* exception leaves the loop.
RECURSIVE SearchLoop(_, _, _, _, _)
SearchLoop(items, stype, self, oracle, acc) ==
    IF Len(items) = 0 \/ acc.exc # "" THEN acc
    ELSE SearchLoop(Tail(items), stype, self, oracle,
                    LoopBody(Head(items), stype, self, oracle, acc))

Return(value) == [kind |-> "return", exc |-> "", value |-> value]
Raise(exc) == [kind |-> "raise", exc |-> exc, value |-> <<>>]

\* `return results`, unless an exception left the loop.
LoopOutcome(end) ==
    [ret |-> IF end.exc # "" THEN Raise(end.exc) ELSE Return(end.results),
     calls |-> end.calls,
     data |-> end.data,
     encoder |-> end.encoder]

\* results = []
LoopStart(self) ==
    [results |-> <<>>, calls |-> <<>>, data |-> self.data,
     encoder |-> self.encoder, exc |-> ""]

\* The whole of search: what the caller gets, the matcher calls made, and
\* the engine's state afterwards.
SearchCall(img_ingredients, stype, self, oracle) ==
    IF ~ValidSearchType(stype)
    THEN [ret |-> Raise("ValueError"), calls |-> <<>>,
          data |-> self.data, encoder |-> self.encoder]
    ELSE LoopOutcome(SearchLoop(img_ingredients, stype, self, oracle,
                                LoopStart(self)))

----------------------------------------------------------------------------
(* The engine as a state machine: construction, then search calls. *)

\* The search_type values tried: the two the method knows and one other.
SearchTypes == {"fuzzy", "semantic", "phonetic"}

\* The items a request may hold: every name with a positive weight, two
\* of them also with a weight that is zero or negative.
Item(name, weight) == [name |-> name, weight |-> weight]
RequestItems ==
    { Item(<<>>, 150),
      Item(<<"A">>, 150), Item(<<"A">>, -50),
      Item(<<"b">>, 50), Item(<<"b">>, 0),
      Item(<<"a", "b">>, 150) }

\* A request mapping: its items in iteration order, no name twice.
Requests ==
    {r \in UNION {[1..n -> RequestItems] : n \in 0..MaxReq} :
        \A i, j \in 1..Len(r) : i # j => r[i].name # r[j].name}

RowSeqs == UNION {[1..n -> DatasetRows] : n \in 1..MaxRows}

Range(seq) == {seq[i] : i \in 1..Len(seq)}

NoCall == [kind |-> "none", exc |-> "", value |-> <<>>]
NoAnswer == [kind |-> "none", exc |-> "", status |-> "", error |-> ""]

InitAssistant ==
    /\ a_pc = "idle"
    /\ a_timeout = 0
    /\ a_start = 0
    /\ a_now = 0
    /\ a_status = ""
    /\ a_created = FALSE
    /\ a_late = FALSE
    /\ a_ret = NoAnswer

\* __init__ on a dataset file holding `rows`, the model answering `enc`
\* for the ingredient names (encode raised for none of them).
Construct(loaded, enc) ==
    /\ data = loaded.val
    /\ ingredients = loaded.keys
    /\ encoder = enc
    /\ embeddings = [i \in 1..Len(loaded.keys) |-> enc[loaded.keys[i]].vec]
    /\ pc = "idle"
    /\ request = <<>>
    /\ search_type = ""
    /\ ret = NoCall
    /\ calls = <<>>
    /\ prev = NoCall
    /\ ncalls = 0

\* The tables the dataset files of at most MaxRows rows load to.
Tables == {LoadData(rows) : rows \in RowSeqs}

Init ==
    /\ \E loaded \in Tables :
          \E enc \in [Range(loaded.keys) -> {EncodeOK(v) : v \in Vectors}] :
             Construct(loaded, enc)
    /\ InitAssistant

Self == [data |-> data, ingredients |-> ingredients,
         embeddings |-> embeddings, encoder |-> encoder]

\* The texts a call encodes that the model has not answered yet.
NewTexts(img_ingredients, stype) ==
    IF stype = "semantic"
    THEN {Lower(img_ingredients[i].name) : i \in 1..Len(img_ingredients)}
         \ DOMAIN encoder
    ELSE {}

\* A call of search(img_ingredients, stype) and its effect on the state.
Effect(img_ingredients, stype, out) ==
    /\ ret' = out.ret
    /\ calls' = out.calls
    /\ data' = out.data
    /\ encoder' = out.encoder
    /\ request' = img_ingredients
    /\ search_type' = stype
    /\ ncalls' = ncalls + 1
    /\ pc' = IF pc = "idle" THEN "done" ELSE "again"
    /\ UNCHANGED <<ingredients, embeddings>>

Invoke(img_ingredients, stype) ==
    \E oracle \in [NewTexts(img_ingredients, stype) -> EncoderOutputs] :
        Effect(img_ingredients, stype,
               SearchCall(img_ingredients, stype, Self, oracle))

\* The first call of search on the instance.
Search ==
    /\ pc = "idle"
    /\ \E img_ingredients \in Requests, stype \in SearchTypes :
          Invoke(img_ingredients, stype)
    /\ prev' = NoCall
    /\ UNCHANGED assistantVars

\* The same call once more, the table and the index untouched in between.
SearchAgain ==
    /\ pc = "done"
    /\ Invoke(request, search_type)
    /\ prev' = ret
    /\ UNCHANGED assistantVars

Next == Search \/ SearchAgain

Spec == Init /\ [][Next]_vars

----------------------------------------------------------------------------
(* LLMAssistant.generate_response(image_Base64, timeout).  The clock counts *)
(* half seconds; time.sleep(1) and the reload after it take two or three.   *)

AReturn(status, error) ==
    [kind |-> "return", exc |-> "", status |-> status, error |-> error]
ARaise(exc) == [kind |-> "raise", exc |-> exc, status |-> "", error |-> ""]

\* except Exception as e: return {"status": "error", ..., "error": str(e)}
Caught(exc) == AReturn("error", exc)

\* elapsed_time > timeout
Late(now, start, timeout) == now - start > 2 * timeout

\* The statuses a prediction may show after it showed `status`.
NextStatus(status) ==
    CASE status = "starting" ->
            {"starting", "processing", "succeeded", "failed", "canceled"}
      [] status = "processing" ->
            {"processing", "succeeded", "failed", "canceled"}
      [] OTHER -> {status}

\* The call: the test of the timeout, then input_data and start_time.
GenerateResponse ==
    /\ a_pc = "idle"
    /\ \E timeout \in 0..MaxTimeout :
          /\ a_timeout' = timeout
          /\ IF timeout < 1
                THEN /\ a_ret' = ARaise("ValueError")
                     /\ a_pc' = "done"
                     /\ UNCHANGED a_start
                ELSE /\ a_start' = a_now
                     /\ a_pc' = "create"
                     /\ UNCHANGED a_ret
    /\ UNCHANGED <<a_now, a_status, a_created, a_late>>
    /\ UNCHANGED searchVars

\* self.client.predictions.create(...): a prediction, or an exception.
CreatePrediction ==
    /\ a_pc = "create"
    /\ \/ /\ a_ret' = Caught("ApiError")
          /\ a_pc' = "done"
          /\ UNCHANGED <<a_now, a_status, a_created>>
       \/ /\ a_created' = TRUE
          /\ a_status' \in {"starting", "processing"}
          /\ \E d \in {0, 1} : a_now' = a_now + d
          /\ a_pc' = "test"
          /\ UNCHANGED a_ret
    /\ UNCHANGED <<a_timeout, a_start, a_late>>
    /\ UNCHANGED searchVars

\* while prediction.status != "succeeded"; after the loop the output is
\* joined and parsed, which gives "success" or the parse error.
TestStatus ==
    /\ a_pc = "test"
    /\ IF a_status = "succeeded"
          THEN /\ \E parsed \in {AReturn("success", ""),
                                  AReturn("error", "JSONDecodeError")} :
                     a_ret' = parsed
               /\ a_pc' = "done"
          ELSE /\ a_pc' = "sleep"
               /\ UNCHANGED a_ret
    /\ UNCHANGED <<a_timeout, a_start, a_now, a_status, a_created, a_late>>
    /\ UNCHANGED searchVars

\* The loop body: time.sleep(1), prediction.reload(), the elapsed-time
\* test.  The TimeoutError is raised inside the try and caught by its
\* except clause.
SleepReload ==
    /\ a_pc = "sleep"
    /\ \E d \in {2, 3} : a_now' = a_now + d
    /\ \/ /\ a_ret' = Caught("ApiError")
          /\ a_pc' = "done"
          /\ UNCHANGED <<a_status, a_late>>
       \/ /\ a_status' \in NextStatus(a_status)
          /\ IF Late(a_now', a_start, a_timeout)
                THEN /\ a_late' = TRUE
                     /\ a_ret' = Caught("TimeoutError")
                     /\ a_pc' = "done"
                ELSE /\ a_pc' = "test"
                     /\ UNCHANGED <<a_late, a_ret>>
    /\ UNCHANGED <<a_timeout, a_start, a_created>>
    /\ UNCHANGED searchVars

\* An engine for the assistant's runs, which do not use it.
InitEngine ==
    Construct(LoadData(<<CsvRow(<<"a">>, 520, 2, 3, 138)>>),
              [t \in {<<"a">>} |-> EncodeOK(<<1, 0>>)])

InitA == InitEngine /\ InitAssistant

NextA == GenerateResponse \/ CreatePrediction \/ TestStatus \/ SleepReload

SpecAssistant == InitA /\ [][NextA]_vars

----------------------------------------------------------------------------
(* Properties of search. *)

Called == pc # "idle"
Returned == Called /\ ret.kind = "return"

\* The items of the request with a weight above zero, in request order.
RECURSIVE PositiveItems(_)
PositiveItems(items) ==
    IF Len(items) = 0 THEN <<>>
    ELSE (IF Head(items).weight > 0 THEN <<Head(items)>> ELSE <<>>)
         \o PositiveItems(Tail(items))

\* The keys of all entries of a result sequence.
ResultKeys(results) == UNION {DOMAIN results[i] : i \in 1..Len(results)}

\* C1: an item whose weight is zero or negative leaves no entry in what
\* search returns: its name is the key of no entry, matched or empty,
\* whether or not the name would have matched.
C1_NonPositiveDropped ==
    Returned =>
        \A i \in 1..Len(request) :
            request[i].weight <= 0 => request[i].name \notin ResultKeys(ret.value)

\* C1 witness: a returned call whose request held an item of weight <= 0
\* naming an ingredient of the table, next to an item that was resolved.
C1_Witness ==
    /\ Returned
    /\ search_type = "fuzzy"
    /\ Len(ret.value) = 1
    /\ \E i \in 1..Len(request) :
          /\ request[i].weight <= 0
          /\ Lower(request[i].name) \in DOMAIN data

\* C2: a search_type other than "fuzzy" and "semantic" makes search raise
\* ValueError with nothing returned, no matcher called and no text given
\* to the embedding model, whatever the request, the empty one included.
C2_InvalidStrategyRaisesFirst ==
    (Called /\ search_type \notin {"fuzzy", "semantic"}) =>
        /\ ret = Raise("ValueError")
        /\ calls = <<>>
        /\ DOMAIN encoder = Range(ingredients)

\* C2 witness: a call with an unknown search_type on a request holding
\* two items of positive weight.
C2_Witness ==
    /\ Called
    /\ search_type = "phonetic"
    /\ Len(PositiveItems(request)) = 2
    /\ ret.kind = "raise"

ValidCall == Called /\ search_type \in {"fuzzy", "semantic"}

\* m is a whole number nearest to n / d.
Nearest(m, n, d) == 2 * (d * m - n) <= d /\ 2 * (n - d * m) <= d

\* The entry value is that of a match with canonical name n, weight w and
\* every field of the base record r scaled by w / 100 and rounded.
ScaledEntry(value, n, w, r) ==
    /\ DOMAIN value = {"match", "weight"} \cup Fields
    /\ value.match = n
    /\ value.weight = w
    /\ \A f \in Fields : Nearest(value[f], r[f] * w, 1000)

\* C3 (as claimed): the request {n: w} with w > 0 and n a key of the table
\* with record r returns one entry, whose weight is w and whose calories,
\* fats, proteins and carbohydrates are r's times w / 100, rounded to the
\* nearest whole number.
C3_ScaledSingleEntry ==
    (/\ ValidCall
     /\ Len(request) = 1
     /\ request[1].weight > 0
     /\ request[1].name \in DOMAIN data) =>
        /\ ret.kind = "return"
        /\ Len(ret.value) = 1
        /\ DOMAIN ret.value[1] = {request[1].name}
        /\ ScaledEntry(ret.value[1][request[1].name], request[1].name,
                       request[1].weight, data[request[1].name])

\* What holds of C3 on the code: the same, for a name n that is not the
\* empty string, under the fuzzy strategy.
C3_ScaledSingleEntryNonEmptyFuzzy ==
    (/\ Called
     /\ search_type = "fuzzy"
     /\ Len(request) = 1
     /\ request[1].weight > 0
     /\ request[1].name # <<>>
     /\ request[1].name \in DOMAIN data) =>
        /\ ret.kind = "return"
        /\ Len(ret.value) = 1
        /\ DOMAIN ret.value[1] = {request[1].name}
        /\ ScaledEntry(ret.value[1][request[1].name], request[1].name,
                       request[1].weight, data[request[1].name])

\* C4 (as claimed): under either strategy, an item of positive weight
\* whose name is exactly a key n of the table, the empty string included,
\* gets an entry with match = n: not the empty entry, not another name.
C4_ExactNameMatchesItself ==
    (ValidCall /\ ret.kind = "return") =>
        \A i \in 1..Len(ret.value) :
            \A n \in DOMAIN ret.value[i] :
                n \in DOMAIN data =>
                    /\ "match" \in DOMAIN ret.value[i][n]
                    /\ ret.value[i][n].match = n

\* What holds of C4 on the code: the same under the fuzzy strategy for a
\* key that is not the empty string.
C4_ExactNonEmptyNameFuzzy ==
    (Called /\ search_type = "fuzzy" /\ ret.kind = "return") =>
        \A i \in 1..Len(ret.value) :
            \A n \in DOMAIN ret.value[i] :
                (n \in DOMAIN data /\ n # <<>>) =>
                    /\ "match" \in DOMAIN ret.value[i][n]
                    /\ ret.value[i][n].match = n

\* The similarity of the lowercased query to the j-th canonical name under
\* the strategy of the call, and the threshold on the same scale.
ScoreOf(query, j) ==
    IF search_type = "fuzzy" THEN Ratio(ingredients[j], query)
    ELSE CosSim(encoder[query].vec, embeddings[j])
ThresholdOf == IF search_type = "fuzzy" THEN Threshold ELSE ThresholdSq

Clears(query, j) == ScoreGE(ScoreOf(query, j), ThresholdOf)
IsBest(query, j) ==
    \A k \in 1..Len(ingredients) : ScoreGE(ScoreOf(query, j), ScoreOf(query, k))

\* The entry for `item` is the empty one exactly when no canonical name
\* clears the threshold, and is otherwise a match with a best scorer that
\* clears it.
ThresholdRule(item, value) ==
    /\ (DOMAIN value = {}) <=>
          (\A j \in 1..Len(ingredients) : ~Clears(Lower(item.name), j))
    /\ (DOMAIN value # {}) =>
          \E j \in 1..Len(ingredients) :
              /\ value.match = ingredients[j]
              /\ IsBest(Lower(item.name), j)
              /\ Clears(Lower(item.name), j)

\* C6 (as claimed): for an item of positive weight the entry is the empty
\* one exactly when no canonical name scores at least the threshold
\* against the lowercased query; otherwise it is a match with a canonical
\* name of maximum score, and that score is at least the threshold.
C6_UnmatchedIffBelowThreshold ==
    (ValidCall /\ ret.kind = "return"
        /\ Len(ret.value) = Len(PositiveItems(request))) =>
        \A i \in 1..Len(ret.value) :
            ThresholdRule(PositiveItems(request)[i], EntryValue(ret.value[i]))

\* What holds of C6 on the code: the same when the empty string is no key
\* of the table.
C6_ThresholdRuleNoEmptyKey ==
    (ValidCall /\ ret.kind = "return" /\ <<>> \notin DOMAIN data
        /\ Len(ret.value) = Len(PositiveItems(request))) =>
        \A i \in 1..Len(ret.value) :
            ThresholdRule(PositiveItems(request)[i], EntryValue(ret.value[i]))

\* Some matcher call of the search call raised.
MatcherRaised == \E i \in 1..Len(calls) : calls[i].out.kind = "raise"

\* C7 (as claimed): when the matcher raises on one entry, the entries
\* after it are resolved all the same: every item of positive weight gets
\* its matcher call.
C7_FailureLeavesRestResolved ==
    (Called /\ MatcherRaised) => Len(calls) = Len(PositiveItems(request))

\* C7 (amended): when the matcher raises on one entry, search raises the
\* error to its caller and returns no result; the raising call is the last
\* matcher call, so no later entry is resolved.  And search raises this
\* error only then.
C7_FailureAbortsBatch ==
    Called =>
        /\ MatcherRaised <=> ret = Raise("EncodeError")
        /\ \A i \in 1..Len(calls) :
              calls[i].out.kind = "raise" => i = Len(calls)
        /\ Len(calls) <= Len(PositiveItems(request))

\* C7 witness: the matcher raised on the first of two items of positive
\* weight, and the second got no matcher call.
C7_Witness ==
    /\ Called
    /\ search_type = "semantic"
    /\ Len(PositiveItems(request)) = 2
    /\ Len(calls) = 1
    /\ calls[1].out.kind = "raise"
    /\ ret.kind = "raise"

\* C8: the same call of search made again on the same instance, the table
\* and the index untouched in between, gives what the first call gave, a
\* return value or an error: the first call leaves nothing behind that
\* changes the second.
C8_SecondCallSame ==
    pc = "again" => ret = prev

\* C8 witness: a second call that returned two entries, one of them a
\* match.
C8_Witness ==
    /\ pc = "again"
    /\ ret.kind = "return"
    /\ Len(ret.value) = 2
    /\ \E i \in 1..2 : DOMAIN EntryValue(ret.value[i]) # {}

\* The fuzzy matcher's calls of a call of search.
FuzzyHits ==
    IF Called /\ search_type = "fuzzy"
    THEN {i \in 1..Len(calls) : calls[i].out.kind = "str"}
    ELSE {}

\* The candidates that reach the maximum score against `query`.
TopCandidates(query) ==
    {j \in 1..Len(ingredients) :
        \A k \in 1..Len(ingredients) :
            ScoreGE(Ratio(ingredients[j], query), Ratio(ingredients[k], query))}

\* C9 (as claimed): when candidates tie on the maximum score, the fuzzy
\* matcher returns the first of them in the order of the candidate list.
C9_TieGoesToFirstInOrder ==
    \A i \in FuzzyHits :
        \E j \in TopCandidates(calls[i].query) :
            /\ calls[i].out.val = ingredients[j]
            /\ \A k \in TopCandidates(calls[i].query) : j <= k

\* C9 (amended): when candidates tie on the maximum score, the fuzzy
\* matcher returns the one of them that is greatest in Python's string
\* order, wherever it stands in the candidate list.
C9_TieGoesToGreatestString ==
    \A i \in FuzzyHits :
        \E j \in TopCandidates(calls[i].query) :
            /\ calls[i].out.val = ingredients[j]
            /\ \A k \in TopCandidates(calls[i].query) :
                  k # j => StrLess(ingredients[k], ingredients[j])

\* C9 witness: two candidates tie on the maximum score, which clears the
\* threshold, and the matcher returned the second of them.
C9_Witness ==
    \E i \in FuzzyHits :
        /\ Cardinality(TopCandidates(calls[i].query)) = 2
        /\ \E j, k \in TopCandidates(calls[i].query) :
              j < k /\ calls[i].out.val = ingredients[k]

\* The candidate list and the embedding index are the table's own keys:
\* every key once, one embedding per key.
IndexFromTable ==
    /\ Range(ingredients) = DOMAIN data
    /\ Len(ingredients) = Cardinality(DOMAIN data)
    /\ Len(embeddings) = Len(ingredients)
    /\ \A k \in DOMAIN data : k = Lower(k)

\* C11: a name a matcher returns is a key of the table, so the lookup of
\* its record never fails (search never ends in the error of a missing
\* record), and every entry that is not empty has a match that is a key
\* of the table and exactly the fields match, weight, calories, fats,
\* proteins and carbohydrates.  This holds for every table, rows whose
\* names differ only by case included, because the candidate list and
\* the index come from the table's lowercased keys.
C11_MatchIsTableKey ==
    /\ IndexFromTable
    /\ Called =>
          /\ ret # Raise("AttributeError")
          /\ \A i \in 1..Len(calls) :
                calls[i].out.kind = "str" => calls[i].out.val \in DOMAIN data
          /\ ret.kind = "return" =>
                \A i \in 1..Len(ret.value) :
                    \A n \in DOMAIN ret.value[i] :
                        DOMAIN ret.value[i][n] # {} =>
                            /\ DOMAIN ret.value[i][n]
                                   = {"match", "weight"} \cup Fields
                            /\ ret.value[i][n].match \in DOMAIN data

\* C11 witness: a table of two keys, the key "a" holding the record of the
\* row named "A"; the request name "ab", no key of the table, got a match
\* and the request name "A" got the match "a".
C11_Witness ==
    /\ Returned
    /\ Len(ingredients) = 2
    /\ <<"a">> \in DOMAIN data
    /\ data[<<"a">>].calories = 30
    /\ Len(ret.value) = 2
    /\ \E i, j \in 1..2 :
          /\ DOMAIN ret.value[i] = {<<"a", "b">>}
          /\ DOMAIN EntryValue(ret.value[i]) # {}
          /\ DOMAIN ret.value[j] = {<<"A">>}
          /\ DOMAIN EntryValue(ret.value[j]) # {}
          /\ EntryValue(ret.value[j]).match = <<"a">>

----------------------------------------------------------------------------
(* Properties of generate_response. *)

\* C10 (as claimed): with timeout < 1 the call raises ValueError before a
\* prediction is created; with timeout >= 1, when the elapsed time has
\* passed the timeout and the prediction has not succeeded, failed or
\* canceled ones included, the call raises TimeoutError to its caller.
C10_TimeoutErrorReachesCaller ==
    a_pc = "done" =>
        /\ a_timeout < 1 => (a_ret = ARaise("ValueError") /\ ~a_created)
        /\ a_late => a_ret = ARaise("TimeoutError")

\* What holds of C10 on the code: the ValueError is raised as claimed,
\* and the TimeoutError is returned to the caller as an error answer.
C10_TimeoutErrorIsReturned ==
    a_pc = "done" =>
        /\ a_timeout < 1 => (a_ret = ARaise("ValueError") /\ ~a_created)
        /\ a_late => a_ret = AReturn("error", "TimeoutError")
        /\ a_timeout >= 1 => a_ret.kind = "return"

====
